---- MODULE Spec2Model ----
(***************************************************************************)
(* Location-privacy simulation: the density-aware k-anonymity engine       *)
(* (adka.py and its two class-based copies), the direct k-anonymity engine *)
(* (k_anonymity.py) and the differential-privacy obfuscator and analyzer   *)
(* (differential_privacy_simulation.py).                                   *)
(*                                                                         *)
(* Every function of the source is one action: the action computes the     *)
(* whole call with the loops of the source written as recursive operators, *)
(* records the call in `call` and its outcome (a returned value or the     *)
(* exception that escapes) in `ret`.                                       *)
(***************************************************************************)
EXTENDS Integers, Sequences, FiniteSets, TLC

\* ------------------------------------------------------------------------
\* Bounds of the model
\* ------------------------------------------------------------------------
NumNodes == 3
MaxPop == 2
MaxK == 3
MaxDepth == 2
MaxDensity == 11
MaxUsers == 2
GridW == 2
MaxEpsilons == 2
MaxErrors == 2

\* Node ids of the graph; NodeArgs adds one id that is not a node.
Nodes == 0 .. (NumNodes - 1)
NodeArgs == 0 .. NumNodes
KArgs == -1 .. MaxK
DepthArgs == 0 .. MaxDepth
\* User ids: add_users creates the ids below num_users <= MaxUsers.
UserArgs == 0 .. (MaxUsers - 1)
AllEdges == {e \in SUBSET Nodes : Cardinality(e) = 2}

VARIABLES
    program,        \* which of the independent programs of the repository runs
    edges,          \* graph: the undirected edges between Nodes
    user_at_node,   \* density engine: node -> population count
    users,          \* k-anonymity engine: user id -> node
    user_positions, \* k-anonymity engine: user id -> display position
    manager,        \* k-anonymity engine: <<k>> of the manager, <<>> before it
    epsilon_values, \* obfuscator: its list of privacy budgets, in hundredths
    call,           \* the last call: operation and arguments
    ret,            \* its outcome: kind "return" with value, or "raise" with exc
    trace           \* locals of the last call when it ended (history only)

vars == <<program, edges, user_at_node, users, user_positions, manager,
          epsilon_values, call, ret, trace>>

NoCall == [op |-> "none", a |-> 0, b |-> 0]
NoRet == [kind |-> "none", exc |-> "", value |-> 0]
Return(v) == [kind |-> "return", exc |-> "", value |-> v]
Raise(e) == [kind |-> "raise", exc |-> e, value |-> 0]
NoTrace == [order |-> <<>>]
\* An outcome together with the locals it ended with.
Ended(r, t) == [ret |-> r, trace |-> t]

\* ------------------------------------------------------------------------
\* Graph helpers
\* ------------------------------------------------------------------------
Min(S) == CHOOSE x \in S : \A y \in S : x <= y

RECURSIVE SortedSeq(_)
SortedSeq(S) == IF S = {} THEN <<>>
                ELSE <<Min(S)>> \o SortedSeq(S \ {Min(S)})

SeqToSet(s) == {s[i] : i \in 1 .. Len(s)}

\* G.neighbors(node): the adjacency of node, in its enumeration order
\* (ascending node id, the order in which the grid builders insert edges).
Neighbors(node) == SortedSeq({m \in Nodes : {node, m} \in edges})

\* ------------------------------------------------------------------------
\* Density-aware engine
\* ------------------------------------------------------------------------

\* DensityScan without the visited test: a neighbour is counted each time
\* it is met.
RECURSIVE DensityScanRecount(_, _, _, _, _)
DensityScanRecount(nbrs, visited, queue, total, d) ==
    IF nbrs = <<>> THEN [visited |-> visited, queue |-> queue, total |-> total]
    ELSE DensityScanRecount(Tail(nbrs), visited \cup {Head(nbrs)},
                            Append(queue, <<Head(nbrs), d + 1>>),
                            total + user_at_node[Head(nbrs)], d)

\* for neigh in neighbors(current): if neigh not in visited: ...
RECURSIVE DensityScan(_, _, _, _, _)
DensityScan(nbrs, visited, queue, total, d) ==
    IF nbrs = <<>> THEN [visited |-> visited, queue |-> queue, total |-> total]
    ELSE LET neigh == Head(nbrs) IN
         IF neigh \notin visited
         THEN DensityScan(Tail(nbrs), visited \cup {neigh},
                          Append(queue, <<neigh, d + 1>>),
                          total + user_at_node[neigh], d)
         ELSE DensityScan(Tail(nbrs), visited, queue, total, d)

\* while queue: current, d = queue.pop(0); if d == depth: continue; ...
\* `rounds` counts the passes through the loop body made so far.
RECURSIVE DensityWhile(_, _, _, _, _)
RECURSIVE DensityNext(_, _, _)
DensityWhile(visited, queue, total, depth, rounds) ==
    IF queue = <<>>
    THEN Ended(Return(total), [visited |-> visited, rounds |-> rounds])
    ELSE IF Head(queue)[2] = depth
    THEN DensityWhile(visited, Tail(queue), total, depth, rounds + 1)
    ELSE DensityNext(DensityScan(Neighbors(Head(queue)[1]), visited,
                                 Tail(queue), total, Head(queue)[2]),
                     depth, rounds + 1)

\* the next round of the loop, s the locals after the neighbour scan
DensityNext(s, depth, rounds) ==
    DensityWhile(s.visited, s.queue, s.total, depth, rounds)

compute_density(node, depth) ==
    IF node \notin DOMAIN user_at_node THEN Ended(Raise("KeyError"), NoTrace)
    ELSE DensityWhile({node}, <<<<node, 0>>>>, user_at_node[node], depth, 0)

\* classify_density with the bounds taken inclusively (<=).
classify_densityInclusive(density) ==
    IF density <= 4 THEN "Sparse"
    ELSE IF density <= 10 THEN "Medium"
    ELSE "Dense"

classify_density(density) ==
    IF density < 4 THEN "Sparse"
    ELSE IF density < 10 THEN "Medium"
    ELSE "Dense"

\* select_k with the middle and the dense tiers exchanged.
select_kExchanged(density) ==
    IF density < 4 THEN 10
    ELSE IF density < 10 THEN 2
    ELSE 5

select_k(density) ==
    IF density < 4 THEN 10
    ELSE IF density < 10 THEN 5
    ELSE 2

\* ExpandScan that adds a neighbour to the region but does not enqueue it.
RECURSIVE ExpandScanNoEnqueue(_, _, _, _, _)
ExpandScanNoEnqueue(nbrs, order, queue, user_count, k) ==
    IF nbrs = <<>>
    THEN [order |-> order, queue |-> queue, user_count |-> user_count]
    ELSE IF Head(nbrs) \in SeqToSet(order)
    THEN ExpandScanNoEnqueue(Tail(nbrs), order, queue, user_count, k)
    ELSE IF user_count + user_at_node[Head(nbrs)] >= k
    THEN [order |-> Append(order, Head(nbrs)), queue |-> queue,
          user_count |-> user_count + user_at_node[Head(nbrs)]]
    ELSE ExpandScanNoEnqueue(Tail(nbrs), Append(order, Head(nbrs)), queue,
                             user_count + user_at_node[Head(nbrs)], k)

\* ExpandScan without the break: every unvisited neighbour of the current
\* node is added, whatever the count.
RECURSIVE ExpandScanNoBreak(_, _, _, _, _)
ExpandScanNoBreak(nbrs, order, queue, user_count, k) ==
    IF nbrs = <<>>
    THEN [order |-> order, queue |-> queue, user_count |-> user_count]
    ELSE IF Head(nbrs) \in SeqToSet(order)
    THEN ExpandScanNoBreak(Tail(nbrs), order, queue, user_count, k)
    ELSE ExpandScanNoBreak(Tail(nbrs), Append(order, Head(nbrs)),
                           Append(queue, Head(nbrs)),
                           user_count + user_at_node[Head(nbrs)], k)

\* for neigh in neighbors(current): if neigh not in region: add, enqueue,
\* count; break as soon as user_count >= k.  `order` lists the region in the
\* order its nodes were added.
RECURSIVE ExpandScan(_, _, _, _, _)
ExpandScan(nbrs, order, queue, user_count, k) ==
    IF nbrs = <<>>
    THEN [order |-> order, queue |-> queue, user_count |-> user_count]
    ELSE LET neigh == Head(nbrs) IN
         IF neigh \notin SeqToSet(order)
         THEN LET c == user_count + user_at_node[neigh] IN
              IF c >= k
              THEN [order |-> Append(order, neigh),
                    queue |-> Append(queue, neigh), user_count |-> c]
              ELSE ExpandScan(Tail(nbrs), Append(order, neigh),
                              Append(queue, neigh), c, k)
         ELSE ExpandScan(Tail(nbrs), order, queue, user_count, k)

\* adka.py: while user_count < k: current = queue.pop(0); ...
RECURSIVE AdkaWhile(_, _, _, _, _)
RECURSIVE AdkaNext(_, _, _)
AdkaWhile(order, queue, user_count, k, rounds) ==
    IF user_count < k
    THEN IF queue = <<>>
         THEN Ended(Raise("IndexError"),
                    [order |-> order, user_count |-> user_count,
                     rounds |-> rounds])
         ELSE AdkaNext(ExpandScan(Neighbors(Head(queue)), order,
                                  Tail(queue), user_count, k), k, rounds + 1)
    ELSE Ended(Return(SeqToSet(order)),
               [order |-> order, user_count |-> user_count,
                rounds |-> rounds])

\* the next round of the loop, s the locals after the neighbour scan
AdkaNext(s, k, rounds) ==
    AdkaWhile(s.order, s.queue, s.user_count, k, rounds)

adka_expand_region(start_node, k) ==
    IF start_node \notin DOMAIN user_at_node
    THEN Ended(Raise("KeyError"), NoTrace)
    ELSE AdkaWhile(<<start_node>>, <<start_node>>, user_at_node[start_node],
                   k, 0)

\* ADKAAlgorithm: while user_count < k and queue: ...; visited.add(current)
RECURSIVE ADKAWhile(_, _, _, _, _, _)
RECURSIVE ADKANext(_, _, _, _)
ADKAWhile(order, queue, user_count, visited, k, rounds) ==
    IF user_count < k /\ queue # <<>>
    THEN ADKANext(ExpandScan(Neighbors(Head(queue)), order, Tail(queue),
                             user_count, k),
                  visited \cup {Head(queue)}, k, rounds + 1)
    ELSE Ended(Return(SeqToSet(order)),
               [order |-> order, user_count |-> user_count,
                rounds |-> rounds])

\* the next round of the loop, s the locals after the neighbour scan
ADKANext(s, visited, k, rounds) ==
    ADKAWhile(s.order, s.queue, s.user_count, visited, k, rounds)

ADKA_expand_region(start_node, k) ==
    IF start_node \notin DOMAIN user_at_node
    THEN Ended(Raise("KeyError"), NoTrace)
    ELSE ADKAWhile(<<start_node>>, <<start_node>>, user_at_node[start_node],
                   {}, k, 0)

\* DensityAwareKAnonymityAlgorithm: while user_count < k and queue: ...
RECURSIVE DAKWhile(_, _, _, _, _)
RECURSIVE DAKNext(_, _, _)
DAKWhile(order, queue, user_count, k, rounds) ==
    IF user_count < k /\ queue # <<>>
    THEN DAKNext(ExpandScan(Neighbors(Head(queue)), order, Tail(queue),
                            user_count, k), k, rounds + 1)
    ELSE Ended(Return(SeqToSet(order)),
               [order |-> order, user_count |-> user_count,
                rounds |-> rounds])

\* the next round of the loop, s the locals after the neighbour scan
DAKNext(s, k, rounds) ==
    DAKWhile(s.order, s.queue, s.user_count, k, rounds)

expand_anonymization_region(start_node, k) ==
    IF start_node \notin DOMAIN user_at_node
    THEN Ended(Raise("KeyError"), NoTrace)
    ELSE DAKWhile(<<start_node>>, <<start_node>>, user_at_node[start_node],
                  k, 0)

\* ------------------------------------------------------------------------
\* Actions of the density-aware programs
\* ------------------------------------------------------------------------
Density == program = "density_aware"

\* No call is in progress and the caller holds no outcome.
Idle == call.op = "none"

\* The call ended as e: its outcome and its last locals are recorded.
Outcome(e) == ret' = e.ret /\ trace' = e.trace

\* The caller takes the outcome of the call and goes on.
CallerContinues ==
    /\ call.op # "none"
    /\ call' = NoCall
    /\ ret' = NoRet
    /\ trace' = NoTrace
    /\ UNCHANGED <<program, edges, user_at_node, users, user_positions,
                   manager, epsilon_values>>

ComputeDensity ==
    /\ Density /\ Idle
    /\ \E node \in NodeArgs, depth \in DepthArgs :
          /\ call' = [op |-> "compute_density", a |-> node, b |-> depth]
          /\ Outcome(compute_density(node, depth))
    /\ UNCHANGED <<program, edges, user_at_node, users, user_positions,
                   manager, epsilon_values>>

ClassifyDensity ==
    /\ Density /\ Idle
    /\ \E density \in 0 .. MaxDensity :
          /\ call' = [op |-> "classify_density", a |-> density, b |-> 0]
          /\ ret' = Return(classify_density(density))
          /\ trace' = NoTrace
    /\ UNCHANGED <<program, edges, user_at_node, users, user_positions,
                   manager, epsilon_values>>

SelectK ==
    /\ Density /\ Idle
    /\ \E density \in 0 .. MaxDensity :
          /\ call' = [op |-> "select_k", a |-> density, b |-> 0]
          /\ ret' = Return(select_k(density))
          /\ trace' = NoTrace
    /\ UNCHANGED <<program, edges, user_at_node, users, user_positions,
                   manager, epsilon_values>>

AdkaExpandRegion ==
    /\ Density /\ Idle
    /\ \E start_node \in NodeArgs, k \in KArgs :
          /\ call' = [op |-> "adka.expand_region", a |-> start_node, b |-> k]
          /\ Outcome(adka_expand_region(start_node, k))
    /\ UNCHANGED <<program, edges, user_at_node, users, user_positions,
                   manager, epsilon_values>>

ADKAExpandRegion ==
    /\ Density /\ Idle
    /\ \E start_node \in NodeArgs, k \in KArgs :
          /\ call' = [op |-> "ADKAAlgorithm.expand_region",
                      a |-> start_node, b |-> k]
          /\ Outcome(ADKA_expand_region(start_node, k))
    /\ UNCHANGED <<program, edges, user_at_node, users, user_positions,
                   manager, epsilon_values>>

\* ExpandAnonymizationRegion that takes the users it counted at the seed off
\* the map.
ExpandAnonymizationRegionDrains ==
    /\ Density /\ Idle
    /\ \E start_node \in NodeArgs, k \in KArgs :
          /\ call' = [op |-> "expand_anonymization_region",
                      a |-> start_node, b |-> k]
          /\ Outcome(expand_anonymization_region(start_node, k))
          /\ user_at_node' = [n \in Nodes |->
                                IF n = start_node THEN 0 ELSE user_at_node[n]]
    /\ UNCHANGED <<program, edges, users, user_positions, manager,
                   epsilon_values>>

ExpandAnonymizationRegion ==
    /\ Density /\ Idle
    /\ \E start_node \in NodeArgs, k \in KArgs :
          /\ call' = [op |-> "expand_anonymization_region",
                      a |-> start_node, b |-> k]
          /\ Outcome(expand_anonymization_region(start_node, k))
    /\ UNCHANGED <<program, edges, user_at_node, users, user_positions,
                   manager, epsilon_values>>

\* ------------------------------------------------------------------------
\* Direct k-anonymity engine (k_anonymity.py)
\* ------------------------------------------------------------------------

\* graph.nodes[node]["pos"]: node_id = i * grid_size + j has pos = (i, j)
Pos(node) == <<node \div GridW, node % GridW>>

\* random.uniform(-0.3, 0.3): the draws added to a user's display position,
\* in the unit of Pos; the model keeps one representative draw.
Jitter == {<<0, 0>>}

RECURSIVE Gcd(_, _)
Gcd(m, n) == IF n = 0 THEN m ELSE Gcd(n, m % n)

Abs(x) == IF x < 0 THEN -x ELSE x

\* The quotient n / d (d > 0) of a true division, as a reduced fraction.
Frac(n, d) == LET g == Gcd(Abs(n), d) IN <<n \div g, d \div g>>

\* get_users_at_node: the ids of self.users whose node is node_id, listed in
\* ascending id order; no check that node_id is a node of the graph.
get_users_at_node(node_id) ==
    SortedSeq({user_id \in DOMAIN users : users[user_id] = node_id})

\* FindScan that adds the neighbours to region_nodes but not to the queue.
RECURSIVE FindScanNoEnqueue(_, _, _, _)
FindScanNoEnqueue(nbrs, visited, queue, order) ==
    IF nbrs = <<>> THEN [queue |-> queue, order |-> order]
    ELSE IF Head(nbrs) \in visited \/ Head(nbrs) \in SeqToSet(order)
    THEN FindScanNoEnqueue(Tail(nbrs), visited, queue, order)
    ELSE FindScanNoEnqueue(Tail(nbrs), visited, queue,
                           Append(order, Head(nbrs)))

\* FindScan that enqueues every unvisited neighbour but adds to region_nodes
\* only the neighbours that hold a user.
RECURSIVE FindScanPopulatedOnly(_, _, _, _)
FindScanPopulatedOnly(nbrs, visited, queue, order) ==
    IF nbrs = <<>> THEN [queue |-> queue, order |-> order]
    ELSE IF Head(nbrs) \in visited
    THEN FindScanPopulatedOnly(Tail(nbrs), visited, queue, order)
    ELSE FindScanPopulatedOnly(
             Tail(nbrs), visited, Append(queue, Head(nbrs)),
             IF \/ Head(nbrs) \in SeqToSet(order)
                \/ get_users_at_node(Head(nbrs)) = <<>>
             THEN order ELSE Append(order, Head(nbrs)))

\* for neighbor in graph.neighbors(current_node): if neighbor not in visited:
\*     queue.append(neighbor); region_nodes.add(neighbor)
RECURSIVE FindScan(_, _, _, _)
FindScan(nbrs, visited, queue, order) ==
    IF nbrs = <<>> THEN [queue |-> queue, order |-> order]
    ELSE LET neighbor == Head(nbrs) IN
         IF neighbor \notin visited
         THEN FindScan(Tail(nbrs), visited, Append(queue, neighbor),
                       IF neighbor \in SeqToSet(order) THEN order
                       ELSE Append(order, neighbor))
         ELSE FindScan(Tail(nbrs), visited, queue, order)

\* FindResult that leaves the query user's node out of region_nodes.
FindResultNoSeed(visited, order, users_in_region, rounds) ==
    Ended(Return(<<SeqToSet(Tail(order)), SortedSeq(users_in_region)>>),
          [order |-> order, visited |-> visited, rounds |-> rounds,
           fallback |-> FALSE])

\* FindResult that returns the visited nodes in place of region_nodes.
FindResultVisitedOnly(visited, order, users_in_region, rounds) ==
    Ended(Return(<<SeqToSet(visited), SortedSeq(users_in_region)>>),
          [order |-> order, visited |-> visited, rounds |-> rounds,
           fallback |-> FALSE])

\* return region_nodes, list(users_in_region)
\* `visited` lists the visited nodes in the order they were visited and
\* `rounds` counts the passes through the loop body.
FindResult(visited, order, users_in_region, rounds) ==
    Ended(Return(<<SeqToSet(order), SortedSeq(users_in_region)>>),
          [order |-> order, visited |-> visited, rounds |-> rounds,
           fallback |-> FALSE])

\* while queue and len(users_in_region) < self.k: ...
\* FindWhile is the loop test and the pop, FindVisit the body once
\* current_node is marked visited and its users are merged, FindGrow the
\* next round after the neighbours were scanned.
RECURSIVE FindWhile(_, _, _, _, _, _)
RECURSIVE FindVisit(_, _, _, _, _, _, _)
RECURSIVE FindGrow(_, _, _, _, _)
FindWhile(visited, queue, order, users_in_region, k, rounds) ==
    IF queue # <<>> /\ Cardinality(users_in_region) < k
    THEN IF Head(queue) \in SeqToSet(visited)
         THEN FindWhile(visited, Tail(queue), order, users_in_region, k,
                        rounds + 1)
         ELSE FindVisit(Head(queue), Append(visited, Head(queue)),
                        Tail(queue), order,
                        users_in_region
                            \cup SeqToSet(get_users_at_node(Head(queue))),
                        k, rounds + 1)
    ELSE FindResult(visited, order, users_in_region, rounds)

\* FindVisit that scans the neighbours of current_node before it tests
\* whether the count has reached k.
FindVisitGrowsFirst(current_node, visited, queue, order, users_in_region, k, rounds) ==
    IF Cardinality(users_in_region) >= k
    THEN FindResult(visited,
                    FindScan(Neighbors(current_node), SeqToSet(visited),
                             queue, order).order,
                    users_in_region, rounds)
    ELSE FindGrow(visited,
                  FindScan(Neighbors(current_node), SeqToSet(visited), queue,
                           order),
                  users_in_region, k, rounds)

FindVisit(current_node, visited, queue, order, users_in_region, k, rounds) ==
    IF Cardinality(users_in_region) >= k
    THEN FindResult(visited, order, users_in_region, rounds)
    ELSE FindGrow(visited,
                  FindScan(Neighbors(current_node), SeqToSet(visited), queue,
                           order),
                  users_in_region, k, rounds)

FindGrow(visited, s, users_in_region, k, rounds) ==
    FindWhile(visited, s.queue, s.order, users_in_region, k, rounds)

find_k_anonymous_region(query_user, k) ==
    IF query_user \notin DOMAIN users
    THEN Ended(Raise("KeyError"), NoTrace)
    ELSE FindWhile(<<>>, <<users[query_user]>>, <<users[query_user]>>,
                   {query_user}, k, 0)

RECURSIVE SumX(_)
SumX(S) == IF S = {} THEN 0
           ELSE LET n == Min(S) IN Pos(n)[1] + SumX(S \ {n})

RECURSIVE SumY(_)
SumY(S) == IF S = {} THEN 0
           ELSE LET n == Min(S) IN Pos(n)[2] + SumY(S \ {n})

\* list(self.city.graph.nodes())[: self.k]
FirstNodes(k) ==
    IF k >= 0 THEN {n \in Nodes : n < k}
    ELSE {n \in Nodes : n < NumNodes + k}

\* positions = [...]; centroid_x = sum(...) / len(positions); ...; return
Centroid(region_nodes, users_in_region, t) ==
    IF region_nodes = {} THEN Ended(Raise("ZeroDivisionError"), t)
    ELSE Ended(Return(<<Frac(SumX(region_nodes), Cardinality(region_nodes)),
                        Frac(SumY(region_nodes), Cardinality(region_nodes)),
                        region_nodes, users_in_region>>), t)

\* if len(users_in_region) < self.k: region_nodes = first k nodes
Disclose(found, k) ==
    IF found.ret.kind = "raise" THEN found
    ELSE IF Len(found.ret.value[2]) < k
    THEN Centroid(FirstNodes(k), found.ret.value[2],
                  [found.trace EXCEPT !.fallback = TRUE])
    ELSE Centroid(found.ret.value[1], found.ret.value[2], found.trace)

get_anonymized_location(query_user, k) ==
    Disclose(find_k_anonymous_region(query_user, k), k)

MaxOf(S) == CHOOSE x \in S : \A y \in S : y <= x

\* calculate_region_size that multiplies the spans max - min, without + 1.
calculate_region_sizeSpans(region_nodes) ==
    IF Cardinality(region_nodes) <= 1 THEN 0
    ELSE (MaxOf({Pos(n)[1] : n \in region_nodes})
            - Min({Pos(n)[1] : n \in region_nodes}))
         * (MaxOf({Pos(n)[2] : n \in region_nodes})
              - Min({Pos(n)[2] : n \in region_nodes}))

\* PrivacyAnalyzer.calculate_region_size
calculate_region_size(region_nodes) ==
    IF Cardinality(region_nodes) <= 1 THEN 0
    ELSE LET xs == {Pos(n)[1] : n \in region_nodes}
             ys == {Pos(n)[2] : n \in region_nodes}
         IN  (MaxOf(xs) - Min(xs) + 1) * (MaxOf(ys) - Min(ys) + 1)

\* PrivacyAnalyzer.calculate_location_error: math.dist, kept as the square
\* of the distance (a fraction); the analysis only compares and counts errors.
calculate_location_error(true_pos, anon_x, anon_y) ==
    LET d == anon_x[2] * anon_y[2]
        dx == true_pos[1] * d - anon_x[1] * anon_y[2]
        dy == true_pos[2] * d - anon_y[1] * anon_x[2]
    IN  Frac(dx * dx + dy * dy, d * d)

\* run_simulation, the body of `for k in k_values` on a city whose users are
\* range(num_users): the per-user loop and the three summary values.
RECURSIVE BatchLoop(_, _, _, _, _, _)
RECURSIVE BatchUser(_, _, _, _, _, _, _)
BatchLoop(user_id, num_users, k, errors, region_sizes, successful) ==
    IF user_id >= num_users
    THEN [errors |-> errors, region_sizes |-> region_sizes,
          successful |-> successful]
    ELSE IF user_id \notin DOMAIN user_positions
    THEN BatchLoop(user_id + 1, num_users, k, errors, region_sizes, successful)
    ELSE BatchUser(get_anonymized_location(user_id, k).ret, user_id,
                   num_users, k, errors, region_sizes, successful)

\* the try block of one user, r the outcome of get_anonymized_location; an
\* exception is caught and printed.
BatchUser(r, user_id, num_users, k, errors, region_sizes, successful) ==
    IF r.kind = "return" /\ Len(r.value[4]) >= k
    THEN BatchLoop(user_id + 1, num_users, k,
             Append(errors,
                    calculate_location_error(user_positions[user_id],
                                             r.value[1], r.value[2])),
             Append(region_sizes, calculate_region_size(r.value[3])),
             successful + 1)
    ELSE BatchLoop(user_id + 1, num_users, k, errors, region_sizes,
                   successful)

RECURSIVE SumSeq(_)
SumSeq(s) == IF s = <<>> THEN 0 ELSE Head(s) + SumSeq(Tail(s))

\* np.mean(errors) if errors else float("inf"); the mean of the distances
\* is kept as the list it is taken of.
MeanOrInf(errors) ==
    IF errors # <<>> THEN [inf |-> FALSE, mean_of |-> errors]
    ELSE [inf |-> TRUE, mean_of |-> <<>>]

\* np.mean(region_sizes) if region_sizes else 0
MeanOrZero(region_sizes) ==
    IF region_sizes # <<>>
    THEN Frac(SumSeq(region_sizes), Len(region_sizes))
    ELSE <<0, 1>>

\* the three appends to results; (successful / num_users) * 100 divides by
\* zero when num_users = 0, after the first two appends.
Summarise(b, num_users) ==
    IF num_users = 0
    THEN Ended(Raise("ZeroDivisionError"),
               [order |-> <<>>, successful |-> b.successful,
                privacy_errors |-> <<MeanOrInf(b.errors)>>,
                region_sizes |-> <<MeanOrZero(b.region_sizes)>>])
    ELSE Ended(Return([privacy_errors |-> <<MeanOrInf(b.errors)>>,
                       region_sizes |-> <<MeanOrZero(b.region_sizes)>>,
                       user_coverage |->
                           <<Frac(b.successful * 100, num_users)>>]),
               [order |-> <<>>, successful |-> b.successful,
                privacy_errors |-> <<MeanOrInf(b.errors)>>,
                region_sizes |-> <<MeanOrZero(b.region_sizes)>>])

run_simulation_k(num_users, k) ==
    Summarise(BatchLoop(0, num_users, k, <<>>, <<>>, 0), num_users)

\* ------------------------------------------------------------------------
\* Actions of the k-anonymity program
\* ------------------------------------------------------------------------
KAnon == program = "k_anonymity"

\* SmartCityGraph.add_users
AddUsers ==
    /\ KAnon /\ Idle
    /\ \E num_users \in 0 .. MaxUsers :
       \E node \in [0 .. (num_users - 1) -> Nodes] :
       \E j \in [0 .. (num_users - 1) -> Jitter] :
          /\ users' = [u \in DOMAIN users \cup DOMAIN node |->
                          IF u \in DOMAIN node THEN node[u] ELSE users[u]]
          /\ user_positions' =
                [u \in DOMAIN users \cup DOMAIN node |->
                    IF u \in DOMAIN node
                    THEN <<Pos(node[u])[1] + j[u][1], Pos(node[u])[2] + j[u][2]>>
                    ELSE user_positions[u]]
          /\ call' = [op |-> "add_users", a |-> num_users, b |-> 0]
          /\ ret' = Return("None")
    /\ trace' = NoTrace
    /\ UNCHANGED <<program, edges, user_at_node, manager, epsilon_values>>

\* MoveUser without the test that new_node is a node of the graph.
MoveUserUnchecked ==
    /\ KAnon /\ Idle
    /\ \E user_id \in UserArgs, new_node \in NodeArgs, j \in Jitter :
          /\ users' = [u \in DOMAIN users \cup {user_id} |->
                          IF u = user_id THEN new_node ELSE users[u]]
          /\ user_positions' =
                [u \in DOMAIN user_positions \cup {user_id} |->
                    IF u = user_id
                    THEN <<Pos(new_node)[1] + j[1], Pos(new_node)[2] + j[2]>>
                    ELSE user_positions[u]]
          /\ call' = [op |-> "move_user", a |-> user_id, b |-> new_node]
          /\ ret' = Return("None")
    /\ trace' = NoTrace
    /\ UNCHANGED <<program, edges, user_at_node, manager, epsilon_values>>

\* SmartCityGraph.move_user
MoveUser ==
    /\ KAnon /\ Idle
    /\ \E user_id \in UserArgs, new_node \in NodeArgs, j \in Jitter :
          /\ IF new_node \in Nodes
             THEN /\ users' = [u \in DOMAIN users \cup {user_id} |->
                                  IF u = user_id THEN new_node ELSE users[u]]
                  /\ user_positions' =
                        [u \in DOMAIN user_positions \cup {user_id} |->
                            IF u = user_id
                            THEN <<Pos(new_node)[1] + j[1],
                                   Pos(new_node)[2] + j[2]>>
                            ELSE user_positions[u]]
             ELSE UNCHANGED <<users, user_positions>>
          /\ call' = [op |-> "move_user", a |-> user_id, b |-> new_node]
          /\ ret' = Return("None")
    /\ trace' = NoTrace
    /\ UNCHANGED <<program, edges, user_at_node, manager, epsilon_values>>

\* SmartCityGraph.get_users_at_node
GetUsersAtNode ==
    /\ KAnon /\ Idle
    /\ \E node_id \in NodeArgs :
          /\ call' = [op |-> "get_users_at_node", a |-> node_id, b |-> 0]
          /\ ret' = Return(get_users_at_node(node_id))
    /\ trace' = NoTrace
    /\ UNCHANGED <<program, edges, user_at_node, users, user_positions,
                   manager, epsilon_values>>

\* KAnonymityPrivacyManager.__init__: self.k = k
\* PrivacyAnalyzer.calculate_region_size(region_nodes, city) on a set of
\* nodes of the city.
CalculateRegionSize ==
    /\ KAnon /\ Idle
    /\ \E region_nodes \in SUBSET Nodes :
          /\ call' = [op |-> "calculate_region_size", a |-> region_nodes,
                      b |-> 0]
          /\ ret' = Return(calculate_region_size(region_nodes))
    /\ trace' = NoTrace
    /\ UNCHANGED <<program, edges, user_at_node, users, user_positions,
                   manager, epsilon_values>>

NewManager ==
    /\ KAnon /\ Idle
    /\ \E k \in KArgs :
          /\ manager' = <<k>>
          /\ call' = [op |-> "KAnonymityPrivacyManager", a |-> k, b |-> 0]
          /\ ret' = Return("manager")
    /\ trace' = NoTrace
    /\ UNCHANGED <<program, edges, user_at_node, users, user_positions,
                   epsilon_values>>

FindKAnonymousRegion ==
    /\ KAnon /\ Idle
    /\ manager # <<>>
    /\ \E query_user \in UserArgs :
          /\ call' = [op |-> "find_k_anonymous_region", a |-> query_user,
                      b |-> manager[1]]
          /\ Outcome(find_k_anonymous_region(query_user, manager[1]))
    /\ UNCHANGED <<program, edges, user_at_node, users, user_positions,
                   manager, epsilon_values>>

GetAnonymizedLocation ==
    /\ KAnon /\ Idle
    /\ manager # <<>>
    /\ \E query_user \in UserArgs :
          /\ call' = [op |-> "get_anonymized_location", a |-> query_user,
                      b |-> manager[1]]
          /\ Outcome(get_anonymized_location(query_user, manager[1]))
    /\ UNCHANGED <<program, edges, user_at_node, users, user_positions,
                   manager, epsilon_values>>

\* run_simulation: one round of `for k in k_values` on the city it built with
\* add_users(num_users), whose users are exactly range(num_users).
RunSimulation ==
    /\ KAnon /\ Idle
    /\ DOMAIN users = 0 .. (Cardinality(DOMAIN users) - 1)
    /\ \E k \in KArgs :
          LET num_users == Cardinality(DOMAIN users) IN
          /\ call' = [op |-> "run_simulation", a |-> num_users, b |-> k]
          /\ Outcome(run_simulation_k(num_users, k))
    /\ UNCHANGED <<program, edges, user_at_node, users, user_positions,
                   manager, epsilon_values>>

\* ------------------------------------------------------------------------
\* Differential-privacy obfuscator and analyzer
\* (differential_privacy_simulation.py); reals are counted in hundredths.
\* ------------------------------------------------------------------------

\* self.sensitivity = 1.0
sensitivity == 100

\* Privacy budgets offered to the calls: the thresholds of the privacy
\* levels, their neighbours, zero and a negative budget.
EpsArgs == {-100, 0, 49, 50, 100, 200, 500}
\* Budgets offered to calculate_privacy_level: each threshold, the value
\* just below it, and values beyond both ends.
LevelArgs == EpsArgs \cup {99, 199, 499, 600}
\* The constructor's default list [0.1, 0.5, 1.0, 2.0, 5.0].
DefaultEpsilonValues == <<10, 50, 100, 200, 500>>
\* Coordinates and the samples np.random.laplace can draw (any real).
ValueArgs == {0, 100}
NoiseDraws == {-50, 0, 50}
\* Location errors (distances, never negative).
ErrorValues == {0, 100, 300}

SeqsUpTo(S, n) == UNION {[1 .. m -> S] : m \in 0 .. n}

\* add_laplace_noise: scale = sensitivity / epsilon divides by zero for
\* epsilon = 0; np.random.laplace rejects a negative scale.
add_laplace_noise(value, epsilon, noise) ==
    IF epsilon = 0 THEN Raise("ZeroDivisionError")
    ELSE IF (sensitivity < 0) # (epsilon < 0) THEN Raise("ValueError")
    ELSE Return(value + noise)

\* calculate_privacy_level with strict comparisons (>) at the thresholds.
calculate_privacy_levelStrict(epsilon) ==
    IF epsilon > 500 THEN "Low Privacy"
    ELSE IF epsilon > 200 THEN "Medium Privacy"
    ELSE IF epsilon > 100 THEN "High Privacy"
    ELSE IF epsilon > 50 THEN "Very High Privacy"
    ELSE "Maximum Privacy"

calculate_privacy_level(epsilon) ==
    IF epsilon >= 500 THEN "Low Privacy"
    ELSE IF epsilon >= 200 THEN "Medium Privacy"
    ELSE IF epsilon >= 100 THEN "High Privacy"
    ELSE IF epsilon >= 50 THEN "Very High Privacy"
    ELSE "Maximum Privacy"

RECURSIVE Insert(_, _)
Insert(x, s) == IF s = <<>> THEN <<x>>
                ELSE IF x <= Head(s) THEN <<x>> \o s
                ELSE <<Head(s)>> \o Insert(x, Tail(s))

RECURSIVE Sorted(_)
Sorted(s) == IF s = <<>> THEN <<>> ELSE Insert(Head(s), Sorted(Tail(s)))

RECURSIVE SumSq(_)
SumSq(s) == IF s = <<>> THEN 0 ELSE Head(s) * Head(s) + SumSq(Tail(s))

Median(s) == LET n == Len(s)
                 t == Sorted(s)
             IN  IF n % 2 = 1 THEN Frac(t[(n + 1) \div 2], 1)
                 ELSE Frac(t[n \div 2] + t[n \div 2 + 1], 2)

\* calculate_utility_loss: np.mean, np.median and np.std of an empty list
\* are nan (with a warning); np.max of an empty list raises ValueError, so no
\* mapping is returned.  std_error is kept as its square, the variance.
calculate_utility_loss(errors) ==
    IF errors = <<>> THEN Raise("ValueError")
    ELSE LET n == Len(errors) IN
         Return([mean_error |-> Frac(SumSeq(errors), n),
                 median_error |-> Median(errors),
                 std_error |-> Frac(n * SumSq(errors)
                                     - SumSeq(errors) * SumSeq(errors), n * n),
                 max_error |-> MaxOf(SeqToSet(errors)),
                 min_error |-> Min(SeqToSet(errors))])

\* ------------------------------------------------------------------------
\* Actions of the differential-privacy program
\* ------------------------------------------------------------------------
DiffPriv == program = "differential_privacy"

\* DifferentialPrivacyLocationObfuscator.__init__
NewObfuscator ==
    /\ DiffPriv /\ Idle
    /\ \E values \in SeqsUpTo(EpsArgs, MaxEpsilons) :
          /\ epsilon_values' = values
          /\ call' = [op |-> "DifferentialPrivacyLocationObfuscator",
                      a |-> values, b |-> 0]
          /\ ret' = Return("obfuscator")
    /\ trace' = NoTrace
    /\ UNCHANGED <<program, edges, user_at_node, users, user_positions,
                   manager>>

AddLaplaceNoise ==
    /\ DiffPriv /\ Idle
    /\ \E value \in ValueArgs, epsilon \in EpsArgs, noise \in NoiseDraws :
          /\ call' = [op |-> "add_laplace_noise", a |-> value, b |-> epsilon]
          /\ ret' = add_laplace_noise(value, epsilon, noise)
    /\ trace' = NoTrace
    /\ UNCHANGED <<program, edges, user_at_node, users, user_positions,
                   manager, epsilon_values>>

CalculatePrivacyLevel ==
    /\ DiffPriv /\ Idle
    /\ \E epsilon \in LevelArgs :
          /\ call' = [op |-> "calculate_privacy_level", a |-> epsilon,
                      b |-> 0]
          /\ ret' = Return(calculate_privacy_level(epsilon))
    /\ trace' = NoTrace
    /\ UNCHANGED <<program, edges, user_at_node, users, user_positions,
                   manager, epsilon_values>>

CalculateUtilityLoss ==
    /\ DiffPriv /\ Idle
    /\ \E errors \in SeqsUpTo(ErrorValues, MaxErrors) :
          /\ call' = [op |-> "calculate_utility_loss", a |-> errors, b |-> 0]
          /\ ret' = calculate_utility_loss(errors)
    /\ trace' = NoTrace
    /\ UNCHANGED <<program, edges, user_at_node, users, user_positions,
                   manager, epsilon_values>>

\* ------------------------------------------------------------------------
\* Specification
\* ------------------------------------------------------------------------
InitDensity ==
    /\ program = "density_aware"
    /\ edges \in SUBSET AllEdges
    /\ user_at_node \in [Nodes -> 0 .. MaxPop]
    /\ users = <<>>
    /\ user_positions = <<>>
    /\ manager = <<>>
    /\ epsilon_values = <<>>
    /\ call = NoCall
    /\ ret = NoRet
    /\ trace = NoTrace

\* SmartCityGraph.__init__ of k_anonymity.py: a graph and no users yet.
InitKAnon ==
    /\ program = "k_anonymity"
    /\ edges \in SUBSET AllEdges
    /\ user_at_node = <<>>
    /\ users = <<>>
    /\ user_positions = <<>>
    /\ manager = <<>>
    /\ epsilon_values = <<>>
    /\ call = NoCall
    /\ ret = NoRet
    /\ trace = NoTrace

\* dp_obfuscator = DifferentialPrivacyLocationObfuscator()
InitDiffPriv ==
    /\ program = "differential_privacy"
    /\ edges = {}
    /\ user_at_node = <<>>
    /\ users = <<>>
    /\ user_positions = <<>>
    /\ manager = <<>>
    /\ epsilon_values = DefaultEpsilonValues
    /\ call = NoCall
    /\ ret = NoRet
    /\ trace = NoTrace

Init == InitDensity \/ InitKAnon \/ InitDiffPriv

Next ==
    \/ CallerContinues
    \/ AddUsers
    \/ MoveUser
    \/ GetUsersAtNode
    \/ NewManager
    \/ FindKAnonymousRegion
    \/ GetAnonymizedLocation
    \/ RunSimulation
    \/ CalculateRegionSize
    \/ NewObfuscator
    \/ AddLaplaceNoise
    \/ CalculatePrivacyLevel
    \/ CalculateUtilityLoss
    \/ ComputeDensity
    \/ ClassifyDensity
    \/ SelectK
    \/ AdkaExpandRegion
    \/ ADKAExpandRegion
    \/ ExpandAnonymizationRegion

Spec == Init /\ [][Next]_vars

\* The three programs are separate scripts; each is also specified alone,
\* from its own construction and with its own operations.
NextDensity ==
    \/ CallerContinues
    \/ ComputeDensity
    \/ ClassifyDensity
    \/ SelectK
    \/ AdkaExpandRegion
    \/ ADKAExpandRegion
    \/ ExpandAnonymizationRegion

SpecDensity == InitDensity /\ [][NextDensity]_vars

NextKAnon ==
    \/ CallerContinues
    \/ AddUsers
    \/ MoveUser
    \/ GetUsersAtNode
    \/ NewManager
    \/ FindKAnonymousRegion
    \/ GetAnonymizedLocation
    \/ RunSimulation
    \/ CalculateRegionSize

SpecKAnon == InitKAnon /\ [][NextKAnon]_vars

NextDiffPriv ==
    \/ CallerContinues
    \/ NewObfuscator
    \/ AddLaplaceNoise
    \/ CalculatePrivacyLevel
    \/ CalculateUtilityLoss

SpecDiffPriv == InitDiffPriv /\ [][NextDiffPriv]_vars

\* ------------------------------------------------------------------------
\* Properties
\* ------------------------------------------------------------------------
ExpandOps == {"adka.expand_region", "ADKAAlgorithm.expand_region",
              "expand_anonymization_region"}
ClassExpandOps == {"ADKAAlgorithm.expand_region",
                   "expand_anonymization_region"}

\* The nodes joined to a node of S by a path of the graph.
RECURSIVE Reach(_)
Reach(S) ==
    IF \A x \in S : \A m \in Nodes : {x, m} \in edges => m \in S THEN S
    ELSE Reach(S \cup {m \in Nodes : \E x \in S : {x, m} \in edges})

\* The nodes at hop distance at most d of node.
RECURSIVE Ball(_, _)
Ball(node, d) ==
    IF d = 0 THEN {node}
    ELSE Ball(node, d - 1)
           \cup {m \in Nodes : \E x \in Ball(node, d - 1) : {x, m} \in edges}

RECURSIVE SumPop(_)
SumPop(S) == IF S = {} THEN 0
             ELSE user_at_node[Min(S)] + SumPop(S \ {Min(S)})

UsersIn(S) == {u \in DOMAIN users : users[u] \in S}

Returned == ret.kind = "return"
Raised == ret.kind = "raise"

\* C1: on a connected graph whose total population is at least k, every
\* expand_region (adka.py and both classes) called on a node of the graph
\* returns a region whose summed population is at least k.
C1_ExpandReachesK ==
    (/\ call.op \in ExpandOps
     /\ call.a \in Nodes
     /\ Reach({call.a}) = Nodes
     /\ SumPop(Nodes) >= call.b)
    => (Returned /\ SumPop(ret.value) >= call.b)

\* C1 witness: a connected graph, a seed below k, and a region that had to
\* grow to every node to reach k.
C1_Witness ==
    /\ call.op = "adka.expand_region"
    /\ call.a \in Nodes
    /\ Reach({call.a}) = Nodes
    /\ SumPop(Nodes) >= call.b
    /\ user_at_node[call.a] < call.b
    /\ Returned
    /\ ret.value = Nodes

\* C2 (as claimed): in every implementation, when the population reachable
\* from the seed is below k the call raises nothing and returns a region,
\* whose population is below k.
C2_ExhaustedFrontierReturns ==
    (/\ call.op \in ExpandOps
     /\ call.a \in Nodes
     /\ SumPop(Reach({call.a})) < call.b)
    => (Returned /\ SumPop(ret.value) < call.b)

C4_DisclosedRegionContainsSeed ==
    (call.op = "get_anonymized_location" /\ Returned)
    => users[call.a] \in ret.value[3]

\* C5: compute_density(n, d) is the sum of the population over the nodes at
\* hop distance at most d of n, each node once; for d = 0 the population of n.
C5_DensityIsBallSum ==
    (call.op = "compute_density" /\ call.a \in Nodes)
    => /\ Returned
       /\ ret.value = SumPop(Ball(call.a, call.b))
       /\ call.b = 0 => ret.value = user_at_node[call.a]

\* C5 witness: a graph with a cycle through the seed, a depth that reaches
\* every node, and a populated node that two paths reach.
C5_Witness ==
    /\ call.op = "compute_density"
    /\ call.a \in Nodes
    /\ call.b = 2
    /\ edges = AllEdges
    /\ \A n \in Nodes : user_at_node[n] > 0
    /\ Returned

\* C6: for a query user whose connected component holds at least k users,
\* find_k_anonymous_region returns at least k pairwise distinct user ids,
\* the query user among them.
C6_FindCollectsK ==
    (/\ call.op = "find_k_anonymous_region"
     /\ call.a \in DOMAIN users
     /\ Cardinality(UsersIn(Reach({users[call.a]}))) >= call.b)
    => /\ Returned
       /\ Len(ret.value[2]) >= call.b
       /\ Cardinality(SeqToSet(ret.value[2])) = Len(ret.value[2])
       /\ call.a \in SeqToSet(ret.value[2])

\* C6 witness: the query user was alone on its node and the region grew
\* over two more nodes until a second user was found.
C6_Witness ==
    /\ call.op = "find_k_anonymous_region"
    /\ call.a \in DOMAIN users
    /\ call.b = 2
    /\ Returned
    /\ Len(ret.value[2]) = 2
    /\ Cardinality(UsersIn({users[call.a]})) = 1
    /\ Len(trace.visited) = 3

\* r is a successful (not fallback) result of get_anonymized_location that
\* equals v.
SuccessEquals(r, v) ==
    r.ret.kind = "return" /\ ~r.trace.fallback /\ r.ret.value = v

\* C7 (as claimed): a result that get_anonymized_location returns after the
\* fallback carries a signal of it: it equals no result that a successful
\* call on the same city returns, whatever user and k that call has.
C7_FallbackIsSignalled ==
    (call.op = "get_anonymized_location" /\ Returned /\ trace.fallback)
    => \A u \in DOMAIN users : \A k \in KArgs :
          ~SuccessEquals(get_anonymized_location(u, k), ret.value)

\* C8 (as claimed): a lookup with an unknown id raises: get_users_at_node
\* and move_user for a node that is not in the graph, move_user and
\* find_k_anonymous_region for a user that is not in the user map,
\* expand_region for a node that is not in the graph.
C8_UnknownIdRaises ==
    [][/\ (call'.op = "get_users_at_node" /\ call'.a \notin Nodes)
             => ret'.kind = "raise"
       /\ (call'.op = "move_user"
             /\ (call'.b \notin Nodes \/ call'.a \notin DOMAIN users))
             => ret'.kind = "raise"
       /\ (call'.op = "find_k_anonymous_region"
             /\ call'.a \notin DOMAIN users)
             => ret'.kind = "raise"
       /\ (call'.op \in ExpandOps /\ call'.a \notin Nodes)
             => ret'.kind = "raise"]_vars

\* C9 (as claimed): invalid configuration is rejected with an error: a
\* manager with k <= 0, expand_region with k <= 0, an obfuscator with an
\* empty epsilon list or with an epsilon <= 0 in it, add_noise with
\* epsilon <= 0.
C9_InvalidConfigurationRejected ==
    /\ (call.op = "KAnonymityPrivacyManager" /\ call.a <= 0) => Raised
    /\ (call.op \in ExpandOps /\ call.b <= 0) => Raised
    /\ (call.op = "DifferentialPrivacyLocationObfuscator"
          /\ (call.a = <<>> \/ \E i \in 1 .. Len(call.a) : call.a[i] <= 0))
          => Raised
    /\ (call.op = "add_laplace_noise" /\ call.b <= 0) => Raised

\* C10 (as claimed): the summary statistics of an empty error sequence are
\* a returned mapping, not an exception, and the batch loop reports
\* infinity as the mean error when it anonymized no user.
C10_EmptyErrorsGiveSentinel ==
    /\ (call.op = "calculate_utility_loss" /\ call.a = <<>>)
          => /\ Returned
             /\ DOMAIN ret.value = {"mean_error", "median_error", "std_error",
                                    "max_error", "min_error"}
    /\ (call.op = "run_simulation" /\ trace.successful = 0)
          => trace.privacy_errors[1].inf

\* C11: every breadth-first traversal ends after a bounded number of passes
\* through its loop, on every graph (cycles included), for every seed, depth
\* and k, also when k cannot be reached: compute_density and the three
\* expand_region make at most one pass per node of the graph, and
\* find_k_anonymous_region at most one pass more than the graph has edges.
C11_TraversalsEnd ==
    /\ (call.op \in ExpandOps \cup {"compute_density"} /\ call.a \in Nodes)
          => /\ Returned \/ Raised
             /\ trace.rounds <= NumNodes
    /\ (call.op = "find_k_anonymous_region" /\ call.a \in DOMAIN users)
          => /\ Returned
             /\ trace.rounds <= 1 + Cardinality(edges)

\* C11 witness: a search on the complete graph, every node on a cycle, for
\* a k above the number of users: the loop ran until the queue was empty,
\* popping again a node it had already visited.
C11_Witness ==
    /\ call.op = "find_k_anonymous_region"
    /\ call.a \in DOMAIN users
    /\ edges = AllEdges
    /\ Cardinality(DOMAIN users) < call.b
    /\ Returned
    /\ trace.rounds > NumNodes

DensityQueries == ExpandOps \cup {"compute_density", "classify_density",
                                  "select_k"}
RegionQueries == {"find_k_anonymous_region", "get_anonymized_location"}

\* C12: a call of compute_density, classify_density, select_k or of one of
\* the expand_region leaves the node-to-population map as it was, and a call
\* of find_k_anonymous_region or get_anonymized_location leaves the
\* user-to-node map and the display positions as they were.
C12_QueriesLeaveMapsUnchanged ==
    [][/\ call'.op \in DensityQueries => user_at_node' = user_at_node
       /\ call'.op \in RegionQueries
             => (users' = users /\ user_positions' = user_positions)]_vars

\* C12 witness: a disclosure that replaced its region by the fallback has
\* returned while every user is still placed.
C12_Witness ==
    /\ call.op = "get_anonymized_location"
    /\ Returned
    /\ trace.fallback
    /\ Cardinality(DOMAIN users) = MaxUsers
    /\ DOMAIN user_positions = DOMAIN users

\* C13: classify_density returns "Sparse" for a density below 4, "Medium"
\* for a density from 4 to 9 and "Dense" for a density of 10 or more, so
\* that 3 is Sparse, 4 and 9 are Medium and 10 is Dense.
C13_ClassifyTiers ==
    call.op = "classify_density"
    => /\ Returned
       /\ ret.value = "Sparse" <=> call.a < 4
       /\ ret.value = "Medium" <=> call.a \in 4 .. 9
       /\ ret.value = "Dense" <=> call.a >= 10

\* C13 witness: a density on a tier boundary has been classified.
C13_Witness ==
    /\ call.op = "classify_density"
    /\ call.a \in {3, 4, 9, 10}
    /\ Returned

\* C14: select_k returns 10 for a density below 4, 5 for a density from 4 to
\* 9 and 2 for a density of 10 or more; no larger density gets a larger k,
\* and the k is the one of the tier classify_density gives the density.
C14_SelectKTiers ==
    call.op = "select_k"
    => /\ Returned
       /\ call.a < 4 => ret.value = 10
       /\ call.a \in 4 .. 9 => ret.value = 5
       /\ call.a >= 10 => ret.value = 2
       /\ \A d \in 0 .. MaxDensity : d >= call.a => select_k(d) <= ret.value
       /\ ret.value = 10 <=> classify_density(call.a) = "Sparse"
       /\ ret.value = 5 <=> classify_density(call.a) = "Medium"
       /\ ret.value = 2 <=> classify_density(call.a) = "Dense"

\* C14 witness: a k has been selected for a density on a tier boundary.
C14_Witness ==
    /\ call.op = "select_k"
    /\ call.a \in {3, 4, 9, 10}
    /\ Returned

\* The grid cells of the smallest axis-aligned box that holds the positions
\* of the nodes of S.
BoundingBox(S) ==
    {c \in (0 .. NumNodes) \X (0 .. NumNodes) :
        /\ \E p \in S, q \in S : Pos(p)[1] <= c[1] /\ c[1] <= Pos(q)[1]
        /\ \E p \in S, q \in S : Pos(p)[2] <= c[2] /\ c[2] <= Pos(q)[2]}

\* C15: calculate_region_size returns 0 for a region of no node or of one
\* node, without raising, and for a larger region the area
\* (max_x - min_x + 1) * (max_y - min_y + 1) of the box around the positions
\* of its nodes, that is the number of grid cells of that box.
C15_RegionExtent ==
    call.op = "calculate_region_size"
    => /\ Returned
       /\ Cardinality(call.a) <= 1 => ret.value = 0
       /\ Cardinality(call.a) > 1
             => ret.value = Cardinality(BoundingBox(call.a))

\* C15 witness: the extent of a region of several nodes whose box holds a
\* cell that is not in the region.
C15_Witness ==
    /\ call.op = "calculate_region_size"
    /\ Returned
    /\ Cardinality(call.a) > 1
    /\ ret.value > Cardinality(call.a)

\* How strict a privacy level is, from the weakest (0) to the strictest (4);
\* the labels are the ones calculate_privacy_level returns.
Strictness(level) ==
    CASE level = "Low Privacy" -> 0
      [] level = "Medium Privacy" -> 1
      [] level = "High Privacy" -> 2
      [] level = "Very High Privacy" -> 3
      [] level = "Maximum Privacy" -> 4

\* C16 (as claimed): calculate_privacy_level returns "Low Privacy" for
\* epsilon >= 5.0, "Medium" for 2.0 <= epsilon < 5.0, "High" for
\* 1.0 <= epsilon < 2.0, "Very High" for 0.5 <= epsilon < 1.0 and
\* "Maximum Privacy" below 0.5 (epsilon in hundredths).
C16_LevelsAsClaimed ==
    call.op = "calculate_privacy_level"
    => /\ Returned
       /\ call.a >= 500 => ret.value = "Low Privacy"
       /\ (200 <= call.a /\ call.a < 500) => ret.value = "Medium"
       /\ (100 <= call.a /\ call.a < 200) => ret.value = "High"
       /\ (50 <= call.a /\ call.a < 100) => ret.value = "Very High"
       /\ call.a < 50 => ret.value = "Maximum Privacy"

\* C16 (amended): calculate_privacy_level returns "Low Privacy" for
\* epsilon >= 5.0, "Medium Privacy" for 2.0 <= epsilon < 5.0, "High Privacy"
\* for 1.0 <= epsilon < 2.0, "Very High Privacy" for 0.5 <= epsilon < 1.0 and
\* "Maximum Privacy" below 0.5, and no lower epsilon gets a less strict level.
C16_PrivacyLevels ==
    call.op = "calculate_privacy_level"
    => /\ Returned
       /\ call.a >= 500 => ret.value = "Low Privacy"
       /\ (200 <= call.a /\ call.a < 500) => ret.value = "Medium Privacy"
       /\ (100 <= call.a /\ call.a < 200) => ret.value = "High Privacy"
       /\ (50 <= call.a /\ call.a < 100) => ret.value = "Very High Privacy"
       /\ call.a < 50 => ret.value = "Maximum Privacy"
       /\ \A e \in LevelArgs :
             e <= call.a => Strictness(calculate_privacy_level(e))
                              >= Strictness(ret.value)

\* C16 witness: a budget inside one of the three middle tiers, on its lower
\* threshold or just below its upper one, has been classified.
C16_Witness ==
    /\ call.op = "calculate_privacy_level"
    /\ call.a \in {50, 99, 100, 199, 200, 499}
    /\ Returned

\* The nodes of R joined to a node of S by a path of the graph that stays
\* inside R.
RECURSIVE ReachWithin(_, _)
ReachWithin(S, R) ==
    IF \A x \in S : \A m \in R : {x, m} \in edges => m \in S THEN S
    ELSE ReachWithin(S \cup {m \in R : \E x \in S : {x, m} \in edges}, R)

\* C17: the region_nodes returned by find_k_anonymous_region are a connected
\* subgraph: every one of them is joined to the query user's node by a path
\* that uses nodes of region_nodes only.
C17_RegionConnected ==
    (call.op = "find_k_anonymous_region" /\ Returned)
    => ReachWithin({users[call.a]}, ret.value[1]) = ret.value[1]

\* C17 witness: a returned region with a node that is not a neighbour of
\* the query user's node, joined to it through another node of the region.
C17_Witness ==
    /\ call.op = "find_k_anonymous_region"
    /\ Returned
    /\ \E n \in ret.value[1] :
          /\ n # users[call.a]
          /\ {users[call.a], n} \notin edges

\* C18 (as claimed): adka.py's expand_region, ADKAAlgorithm.expand_region
\* and DensityAwareKAnonymityAlgorithm.expand_anonymization_region end with
\* the same outcome for every graph, population, seed and k, also when the
\* population reachable from the seed is below k.
C18_SameOutcome ==
    call.op \in ExpandOps
    => /\ ret = adka_expand_region(call.a, call.b).ret
       /\ ret = ADKA_expand_region(call.a, call.b).ret
       /\ ret = expand_anonymization_region(call.a, call.b).ret

\* The node added last to a region, order listing it as it grew.
LastAdded(order) == order[Len(order)]

\* C19: expand_region stops as soon as the running count reaches k: when the
\* seed alone holds at least k users the region is the seed alone, and when
\* a returned region of several nodes holds at least k users, the region
\* without the node added last holds fewer than k.
C19_ExpandStopsAtK ==
    (call.op \in ExpandOps /\ call.a \in Nodes /\ Returned)
    => /\ user_at_node[call.a] >= call.b => ret.value = {call.a}
       /\ (Cardinality(ret.value) > 1 /\ SumPop(ret.value) >= call.b)
             => SumPop(ret.value \ {LastAdded(trace.order)}) < call.b

\* C19 witness: an expansion reached k while scanning a node and left a
\* further neighbour of that node out of the region.
C19_Witness ==
    /\ call.op \in ExpandOps
    /\ call.a \in Nodes
    /\ Returned
    /\ Cardinality(ret.value) > 1
    /\ SumPop(ret.value) >= call.b
    /\ \E n \in Nodes \ ret.value : {call.a, n} \in edges

\* The distinct users collected once the first i nodes of the visit order
\* `visited` of a search for query_user were visited.
CountAfter(query_user, visited, i) ==
    Cardinality({query_user} \cup UsersIn({visited[j] : j \in 1 .. i}))

\* The visited nodes whose visit left the count below k.
VisitedBelow(query_user, visited, k) ==
    {visited[i] : i \in {j \in 1 .. Len(visited) :
                             CountAfter(query_user, visited, j) < k}}

\* C20: find_k_anonymous_region adds neighbours to region_nodes only while
\* the count of distinct users is below k: the returned region is the query
\* user's node and the neighbours of the nodes whose visit left the count
\* below k, nothing being added from the node that brought the count to k;
\* so when the query user's own node holds at least k users, region_nodes is
\* that node alone.
C20_NoGrowthAfterK ==
    (call.op = "find_k_anonymous_region" /\ Returned)
    => /\ ret.value[1]
            = {users[call.a]}
                \cup {m \in Nodes :
                        \E x \in VisitedBelow(call.a, trace.visited, call.b) :
                            {x, m} \in edges}
       /\ Cardinality(UsersIn({users[call.a]})) >= call.b
             => ret.value[1] = {users[call.a]}

\* C20 witness: the count reached k at a visited node other than the query
\* user's, and a neighbour of that node stayed out of the region.
C20_Witness ==
    /\ call.op = "find_k_anonymous_region"
    /\ Returned
    /\ Len(trace.visited) >= 2
    /\ Len(ret.value[2]) >= call.b
    /\ \E n \in Nodes \ ret.value[1] :
          {trace.visited[Len(trace.visited)], n} \in edges

\* C21: whatever add_users and move_user calls were made, every user of the
\* user map is at a node of the graph and the display-position map has the
\* same user ids as the user map; and a move_user whose target is not a node
\* of the graph leaves both maps as they were.
C21_PlacementStaysValid ==
    [][program' = "k_anonymity"
         => /\ \A u \in DOMAIN users' : users'[u] \in Nodes
            /\ DOMAIN user_positions' = DOMAIN users'
            /\ (call'.op = "move_user" /\ call'.b \notin Nodes)
                  => (users' = users /\ user_positions' = user_positions)]_vars

\* C21 witness: a move_user to a node that is not in the graph has returned
\* in a city whose users are all placed.
C21_Witness ==
    /\ call.op = "move_user"
    /\ call.b \notin Nodes
    /\ Returned
    /\ Cardinality(DOMAIN users) = MaxUsers

\* C22: every user id in the list find_k_anonymous_region returns is located
\* at a node of the region_nodes it returns.
C22_ReturnedUsersInRegion ==
    (call.op = "find_k_anonymous_region" /\ Returned)
    => \A i \in 1 .. Len(ret.value[2]) : users[ret.value[2][i]] \in ret.value[1]

\* C22 witness: a search returned users that are located at different nodes.
C22_Witness ==
    /\ call.op = "find_k_anonymous_region"
    /\ Returned
    /\ \E i, j \in 1 .. Len(ret.value[2]) :
          users[ret.value[2][i]] # users[ret.value[2][j]]
====
